---- MODULE Spec2Model ----
(***************************************************************************)
(* Model of server.js: a Hono application that proxies the Twitch Helix    *)
(* API (metadata) and the Twitch GraphQL playback-token endpoint.          *)
(*                                                                         *)
(* Init is the application once its routes are registered (server.js       *)
(* lines 16-358).  Every inbound request is a process of Procs; a request  *)
(* runs synchronously from one `await` of an outbound fetch to the next,   *)
(* so each action below is one such synchronous stretch of a handler.      *)
(* JavaScript strings are sequences of one-character strings.              *)
(***************************************************************************)
EXTENDS Integers, Sequences, FiniteSets, TLC

(***************************************************************************)
(* Bounds of the model.                                                    *)
(***************************************************************************)
MaxTicks == 5          \* the clock advances at most this many times
RandomSteps == 3       \* Math.random() yields k / RandomSteps, 0 <= k < RandomSteps

(***************************************************************************)
(* Program constants.                                                      *)
(***************************************************************************)
SAFETY_MARGIN_MS == 60000      \* server.js:30  `helixAppToken.expiresAt - 60_000`
MS_PER_SECOND == 1000          \* server.js:48  `j.expires_in * 1000`
RANDOM_SCALE == 10000000       \* server.js:167 `Math.random() * 1e7`

TickMs == SAFETY_MARGIN_MS \div 2     \* granularity of the modelled clock
Procs == {1, 2}                \* the requests that may be in flight together
MaxNow == MaxTicks * TickMs

\* undefined and null where a string is expected: one-element sequences that
\* are no sequence of characters.
Undefined == <<"undefined">>
Null == <<"null">>
Nothing == [nothing |-> TRUE]  \* null or undefined where an object is expected

(***************************************************************************)
(* String helpers: String.prototype.trim, toLowerCase, split.              *)
(***************************************************************************)
RECURSIVE TrimStart(_)
TrimStart(s) ==
    IF s # <<>> /\ Head(s) = " " THEN TrimStart(Tail(s)) ELSE s

RECURSIVE TrimEnd(_)
TrimEnd(s) ==
    IF s # <<>> /\ s[Len(s)] = " " THEN TrimEnd(SubSeq(s, 1, Len(s) - 1)) ELSE s

Trim(s) == TrimEnd(TrimStart(s))

LowerChar(ch) ==
    CASE ch = "A" -> "a"
      [] ch = "B" -> "b"
      [] ch = "V" -> "v"
      [] OTHER -> ch

ToLowerCase(s) == [i \in DOMAIN s |-> LowerChar(s[i])]

\* s.split(sep): the pieces of s between occurrences of sep; ''.split(',')
\* is [''], an array of length 1.
RECURSIVE SplitFrom(_, _, _)
SplitFrom(s, sep, cur) ==
    IF s = <<>> THEN <<cur>>
    ELSE IF Head(s) = sep THEN <<cur>> \o SplitFrom(Tail(s), sep, <<>>)
    ELSE SplitFrom(Tail(s), sep, Append(cur, Head(s)))

Split(s, sep) == SplitFrom(s, sep, <<>>)

\* JavaScript truthiness of a value that is undefined, null or a string.
Falsy(v) == v = Undefined \/ v = Null \/ v = <<>>

\* Variant: the parameter lower-cased but not trimmed.
OptTrimLower_NoTrim(v) == IF v = Undefined THEN Undefined ELSE ToLowerCase(v)

\* `x?.trim().toLowerCase()`: the optional chain short-circuits to undefined.
OptTrimLower(v) == IF v = Undefined THEN Undefined ELSE ToLowerCase(Trim(v))
OptTrim(v) == IF v = Undefined THEN Undefined ELSE Trim(v)

(***************************************************************************)
(* Percent-encoding.  encodeURIComponent escapes every character outside   *)
(* A-Z a-z 0-9 - _ . ! ~ * ' ( ); URLSearchParams serialises with the      *)
(* application/x-www-form-urlencoded rules (space becomes "+").            *)
(***************************************************************************)
EncodeComponentChar(ch) ==
    CASE ch = " " -> <<"%", "2", "0">>
      [] ch = "+" -> <<"%", "2", "B">>
      [] ch = "&" -> <<"%", "2", "6">>
      [] ch = "=" -> <<"%", "3", "D">>
      [] ch = "%" -> <<"%", "2", "5">>
      [] OTHER -> <<ch>>

FormEncodeChar(ch) ==
    CASE ch = " " -> <<"+">>
      [] ch = "+" -> <<"%", "2", "B">>
      [] ch = "&" -> <<"%", "2", "6">>
      [] ch = "=" -> <<"%", "3", "D">>
      [] ch = "%" -> <<"%", "2", "5">>
      [] OTHER -> <<ch>>

RECURSIVE encodeURIComponent(_)
encodeURIComponent(s) ==
    IF s = <<>> THEN <<>>
    ELSE EncodeComponentChar(Head(s)) \o encodeURIComponent(Tail(s))

RECURSIVE FormEncode(_)
FormEncode(s) ==
    IF s = <<>> THEN <<>> ELSE FormEncodeChar(Head(s)) \o FormEncode(Tail(s))

(***************************************************************************)
(* Inputs: the environment, and what the three upstreams may answer.       *)
(***************************************************************************)
EnvValues == {Undefined, <<" ">>, <<"i", "d">>}
NodeEnvValues == {Undefined, <<"production">>}
AccessTokens == {"t1", "t2"}
ExpiresIn == {0, 120}                  \* seconds, as sent by the identity endpoint
ErrorStatuses == {503}
ErrorBodies == {<<"e">>}

\* Response.ok: the status is in the range 200-299.
Ok(r) == r.status >= 200 /\ r.status <= 299

ErrorResponses == [status : ErrorStatuses, text : ErrorBodies]

OauthResponses ==
    [status : {200}, access_token : AccessTokens, expires_in : ExpiresIn]
        \cup ErrorResponses

VARIABLES
    HELIX_CLIENT_ID,      \* server.js:13
    HELIX_CLIENT_SECRET,  \* server.js:14
    NODE_ENV,             \* process.env.NODE_ENV
    helixAppToken,        \* server.js:21, Nothing or [token, expiresAt]
    clock,                \* Date.now()
    pc,                   \* per request: where its handler is suspended
    req,                  \* per request: route and the locals of its handler
    calls,                \* per request: the outbound fetches it has issued
    resp,                 \* per request: the response sent, Nothing before
    upstream,             \* per request: the upstream response it received last
    startup               \* how far the evaluation of the module has come

vars == <<HELIX_CLIENT_ID, HELIX_CLIENT_SECRET, NODE_ENV, helixAppToken, clock,
          pc, req, calls, resp, upstream, startup>>

config == <<HELIX_CLIENT_ID, HELIX_CLIENT_SECRET, NODE_ENV>>

\* What no request handler writes.
env == <<config, startup>>

\* `(process.env.X || '').trim()`
EnvOrEmptyTrim(v) == IF Falsy(v) THEN <<>> ELSE Trim(v)

\* A request: its route, its query parameters as received, the target its
\* handler derived from them, the step of the handler, the users already
\* looked up, the number of getHelixAppToken calls made for it, and `now` of
\* the call that is suspended (line 29).
NoReq ==
    [route |-> "none", query |-> Nothing, target |-> <<>>, step |-> "none",
     users |-> <<>>, tokenCalls |-> 0, now |-> 0]

Received(from, r) == [from |-> from, response |-> r]

Init ==
    /\ HELIX_CLIENT_ID \in {EnvOrEmptyTrim(v) : v \in EnvValues}
    /\ HELIX_CLIENT_SECRET \in {EnvOrEmptyTrim(v) : v \in EnvValues}
    /\ NODE_ENV \in NodeEnvValues
    /\ helixAppToken = Nothing
    /\ clock = 0
    /\ pc = [p \in Procs |-> "idle"]
    /\ req = [p \in Procs |-> NoReq]
    /\ calls = [p \in Procs |-> <<>>]
    /\ resp = [p \in Procs |-> Nothing]
    /\ upstream = [p \in Procs |-> Nothing]
    /\ startup = [phase |-> "registered"]

(***************************************************************************)
(* Responses of the handlers.                                              *)
(***************************************************************************)
Respond(p, status, body) ==
    /\ resp' = [resp EXCEPT ![p] = [status |-> status, body |-> body]]
    /\ pc' = [pc EXCEPT ![p] = "done"]

\* The catch blocks of /api/channels and /api/videos/:channel.
ServerError(p, message) ==
    Respond(p, 500, [error |-> "server error", details |-> message])

\* Variant: the stack included whatever the mode.
HlsServerError_AlwaysStack(p, message) ==
    Respond(p, 500, [error |-> "server error", details |-> message,
                     stack |-> <<"stack">>])

\* The catch block of /hls: the stack is left out in production only.
HlsServerError(p, message) ==
    Respond(p, 500, [error |-> "server error", details |-> message,
                     stack |-> IF NODE_ENV = <<"production">> THEN Undefined
                               ELSE <<"stack">>])

\* The response is out and the request's context is gone.
Finish(p) ==
    /\ pc[p] = "done"
    /\ pc' = [pc EXCEPT ![p] = "idle"]
    /\ req' = [req EXCEPT ![p] = NoReq]
    /\ calls' = [calls EXCEPT ![p] = <<>>]
    /\ resp' = [resp EXCEPT ![p] = Nothing]
    /\ upstream' = [upstream EXCEPT ![p] = Nothing]
    /\ UNCHANGED <<env, helixAppToken, clock>>

(***************************************************************************)
(* getHelixAppToken and callHelix.                                         *)
(***************************************************************************)
\* Error messages are template literals: a record of the literal text and of
\* the values interpolated into it.
ConfigErrorMessage ==
    [text |-> "TWITCH_CLIENT_ID and TWITCH_CLIENT_SECRET required for Helix API"]

OauthErrorMessage(r) == [text |-> "oauth token", status |-> r.status]

HelixErrorMessage(r) == [text |-> "helix", status |-> r.status, body |-> r.text]

GqlErrorMessage(r) == [text |-> "gql", status |-> r.status, body |-> r.text]

\* Variant: `&&` in place of `||` in the credential check.
CredentialsMissing_BothAbsent ==
    Falsy(HELIX_CLIENT_ID) /\ Falsy(HELIX_CLIENT_SECRET)

\* Variant: only the client id is looked at.
CredentialsMissing_IdOnly == Falsy(HELIX_CLIENT_ID)

CredentialsMissing == Falsy(HELIX_CLIENT_ID) \/ Falsy(HELIX_CLIENT_SECRET)

\* Variants of the cache test: the comparison reversed, the safety margin
\* forgotten, the expiry not looked at.
CacheHit_Reversed(now) ==
    /\ helixAppToken # Nothing
    /\ now > helixAppToken.expiresAt - SAFETY_MARGIN_MS

CacheHit_NoMargin(now) ==
    /\ helixAppToken # Nothing
    /\ now < helixAppToken.expiresAt

CacheHit_AnyCached(now) == helixAppToken # Nothing

\* `helixAppToken && now < helixAppToken.expiresAt - 60_000`
CacheHit(now) ==
    /\ helixAppToken # Nothing
    /\ now < helixAppToken.expiresAt - SAFETY_MARGIN_MS

IdentityCall ==
    [to |-> "identity", client_id |-> HELIX_CLIENT_ID,
     client_secret |-> HELIX_CLIENT_SECRET, grant_type |-> "client_credentials"]

\* Variants of the slot write: the expiry counted from `now` of line 29, and
\* a slot that is still valid kept in place of the fresh token.
StoreToken_FromRequestTime(p, j) ==
    [token |-> j.access_token,
     expiresAt |-> req[p].now + (j.expires_in * MS_PER_SECOND)]

StoreToken_KeepValid(p, j) ==
    IF helixAppToken # Nothing
         /\ clock < helixAppToken.expiresAt - SAFETY_MARGIN_MS
    THEN helixAppToken
    ELSE [token |-> j.access_token,
          expiresAt |-> clock + (j.expires_in * MS_PER_SECOND)]

\* The slot request p writes from the parsed token response j (lines 46-49).
StoreToken(p, j) ==
    [token |-> j.access_token,
     expiresAt |-> clock + (j.expires_in * MS_PER_SECOND)]

\* `return helixAppToken.token` (line 50), slot being the slot just written.
ReturnedToken(p, j, slot) == slot.token

HelixEndpoint(r) == r.step

HelixParams(r) ==
    IF r.step = "users" THEN [login |-> r.target] ELSE [user_login |-> r.target]

\* The fetch of callHelix, with the bearer token getHelixAppToken returned.
HelixCall(r, token) ==
    [to |-> "helix", endpoint |-> HelixEndpoint(r), params |-> HelixParams(r),
     clientId |-> HELIX_CLIENT_ID, bearer |-> token]

\* callHelix up to its first suspension, r being the handler's locals: the
\* credential check, the cache lookup, and either the fetch to the identity
\* endpoint (miss) or the fetch to the Helix API with the cached token (hit).
CallHelix(p, r) ==
    /\ UNCHANGED <<helixAppToken, clock, env>>
    /\ IF CredentialsMissing
       THEN /\ req' = [req EXCEPT ![p] = [r EXCEPT !.tokenCalls = @ + 1]]
            /\ calls' = calls
            /\ ServerError(p, ConfigErrorMessage)
       ELSE IF CacheHit(clock)
       THEN /\ req' = [req EXCEPT ![p] = [r EXCEPT !.tokenCalls = @ + 1]]
            /\ calls' = [calls EXCEPT ![p] =
                           Append(@, HelixCall(r, helixAppToken.token))]
            /\ pc' = [pc EXCEPT ![p] = "helixWait"]
            /\ resp' = resp
       ELSE /\ req' = [req EXCEPT ![p] =
                         [r EXCEPT !.tokenCalls = @ + 1, !.now = clock]]
            /\ calls' = [calls EXCEPT ![p] = Append(@, IdentityCall)]
            /\ pc' = [pc EXCEPT ![p] = "oauthWait"]
            /\ resp' = resp

\* Variant: a failed fetch drops the cached token.
OauthFailure_ClearsSlot(p, j) ==
    /\ helixAppToken' = Nothing
    /\ calls' = calls
    /\ ServerError(p, OauthErrorMessage(j))

\* getHelixAppToken on a non-2xx response j (line 44): it throws before the
\* slot is written, and the catch block of the handler answers.
OauthFailure(p, j) ==
    /\ UNCHANGED <<helixAppToken, calls>>
    /\ ServerError(p, OauthErrorMessage(j))

\* getHelixAppToken resumed with the identity endpoint's response j (lines
\* 44-50), then callHelix up to its fetch (lines 56-70).  Nothing shared is
\* read or written between the awaits of lines 38 and 45.
OauthResponseWith(p, j) ==
    /\ pc[p] = "oauthWait"
    /\ UNCHANGED <<clock, env>>
    /\ req' = [req EXCEPT ![p].now = 0]
    /\ upstream' = [upstream EXCEPT ![p] = Received("identity", j)]
    /\ IF ~Ok(j)
       THEN OauthFailure(p, j)
       ELSE /\ helixAppToken' = StoreToken(p, j)
            /\ calls' = [calls EXCEPT ![p] =
                           Append(@, HelixCall(req[p],
                                               ReturnedToken(p, j, helixAppToken')))]
            /\ pc' = [pc EXCEPT ![p] = "helixWait"]
            /\ resp' = resp

OauthResponse(p) == \E j \in OauthResponses : OauthResponseWith(p, j)

(***************************************************************************)
(* GET /api/channels                                                       *)
(***************************************************************************)
LoginsQueries == {Undefined, <<>>, <<"a">>, <<"a", ",", "B">>}

\* `c.req.query('logins')?.split(',') || []`
ParseLogins(q) == IF q = Undefined THEN <<>> ELSE Split(q, ",")

HandleChannelsWith(p, q) ==
    /\ pc[p] = "idle"
    /\ LET logins == ParseLogins(q) IN
       IF Len(logins) = 0
       THEN /\ Respond(p, 400, [error |-> "logins required (comma-separated)"])
            /\ req' = [req EXCEPT ![p] = [NoReq EXCEPT !.route = "channels",
                                                       !.query = [logins |-> q]]]
            /\ UNCHANGED <<helixAppToken, clock, env, calls>>
       ELSE CallHelix(p, [NoReq EXCEPT !.route = "channels",
                                       !.query = [logins |-> q],
                                       !.target = logins, !.step = "users"])
    /\ upstream' = upstream

HandleChannels(p) == \E q \in LoginsQueries : HandleChannelsWith(p, q)

\* What the Helix API may answer to the call a request is waiting for.
UsersData(logins) == {<<>>, <<[id |-> "u1", login |-> ToLowerCase(logins[1])]>>}
StreamsData(logins) ==
    {<<>>, <<[user_login |-> ToLowerCase(logins[1]), viewer_count |-> 7]>>}

HelixResponses(r) ==
    ErrorResponses \cup
    [status : {200},
     data : IF r.step = "users" THEN UsersData(r.target) ELSE StreamsData(r.target)]

\* `liveStreams.get(user.login)` over `new Map(streamData.data.map(...))`: the
\* last stream with that login, undefined when there is none.
LiveStream(streams, login) ==
    LET at == {i \in DOMAIN streams : streams[i].user_login = login} IN
    IF at = {} THEN Nothing
    ELSE streams[CHOOSE i \in at : \A k \in at : k <= i]

ChannelRecords(users, streams) ==
    [i \in DOMAIN users |->
        LET stream == LiveStream(streams, users[i].login) IN
        [id |-> users[i].id, login |-> users[i].login,
         is_live |-> stream # Nothing,
         stream |-> IF stream # Nothing
                    THEN [viewer_count |-> stream.viewer_count] ELSE Nothing]]

\* Variant: a failed call is issued again while the request has issued fewer
\* than three calls.
HelixFailure_Retry(p, r) ==
    IF Len(calls[p]) < 3
    THEN /\ calls' = [calls EXCEPT ![p] = Append(@, calls[p][Len(calls[p])])]
         /\ UNCHANGED <<helixAppToken, clock, env, req, pc, resp>>
    ELSE /\ ServerError(p, HelixErrorMessage(r))
         /\ UNCHANGED <<helixAppToken, clock, env, req, calls>>

\* callHelix on a non-2xx response r (lines 72-75): the error it throws
\* reaches the catch block of the handler, which answers.
HelixFailure(p, r) ==
    /\ ServerError(p, HelixErrorMessage(r))
    /\ UNCHANGED <<helixAppToken, clock, env, req, calls>>

\* callHelix resumed with the Helix API's response r (lines 72-77), then the
\* handler up to its next suspension or its response.
HelixResponseWith(p, r) ==
    /\ pc[p] = "helixWait"
    /\ upstream' = [upstream EXCEPT ![p] = Received("helix", r)]
    /\ IF ~Ok(r)
       THEN HelixFailure(p, r)
       ELSE IF req[p].step = "users"
       THEN CallHelix(p, [req[p] EXCEPT !.step = "streams", !.users = r.data])
       ELSE /\ Respond(p, 200, [channels |-> ChannelRecords(req[p].users, r.data)])
            /\ UNCHANGED <<helixAppToken, clock, env, req, calls>>

HelixResponse(p) ==
    /\ pc[p] = "helixWait"
    /\ \E r \in HelixResponses(req[p]) : HelixResponseWith(p, r)

(***************************************************************************)
(* Time.                                                                   *)
(***************************************************************************)
Tick ==
    /\ clock < MaxNow
    /\ clock' = clock + TickMs
    /\ UNCHANGED <<env, helixAppToken, pc, req, calls, resp, upstream>>

(***************************************************************************)
(* GET /api/videos/:channel.  Hono's Context has a `req` with `param()`    *)
(* but no `params`: `c.params` is undefined, so line 234 throws a          *)
(* TypeError inside the try block and the handler answers 500 before any   *)
(* of lines 235-254 runs.                                                  *)
(***************************************************************************)
TypeErrorMessage ==
    [text |-> "Cannot read properties of undefined (reading 'channel')"]

\* The :channel segment of the path, as the router decodes it.
VideoChannels == {<<"a">>, <<"B", " ">>}

HandleVideosWith(p, channelParam) ==
    /\ pc[p] = "idle"
    /\ ServerError(p, TypeErrorMessage)
    /\ req' = [req EXCEPT ![p] = [NoReq EXCEPT !.route = "videos",
                                               !.query = [channel |-> channelParam]]]
    /\ UNCHANGED <<helixAppToken, clock, env, calls, upstream>>

HandleVideos(p) == \E ch \in VideoChannels : HandleVideosWith(p, ch)

(***************************************************************************)
(* The playback signer and the playlist URL builder.                       *)
(***************************************************************************)
GQL_CLIENT_ID == "kimne78kx3ncx6brgo4mv6wki5h1ko"

SigVals == {Undefined, <<>>, <<"S">>}
ValVals == {Undefined, <<"v", " ", "+">>}

\* A playback-token object of a signing response, or Nothing when the field
\* is absent.
TokObjects == [signature : SigVals, value : ValVals] \cup {Nothing}

LiveJson ==
    [data : [streamPlaybackAccessToken : TokObjects,
             streamAccessToken : TokObjects] \cup {Nothing}]

VodJson == [data : [videoPlaybackAccessToken : TokObjects] \cup {Nothing}]

GqlResponses(r) ==
    ErrorResponses \cup
    [status : {200}, json : IF r.step = "live" THEN LiveJson ELSE VodJson]

GqlCall(r) ==
    IF r.step = "live"
    THEN [to |-> "gql", clientId |-> GQL_CLIENT_ID, isLive |-> TRUE,
          login |-> r.target, isVod |-> FALSE, vodID |-> <<>>]
    ELSE [to |-> "gql", clientId |-> GQL_CLIENT_ID, isLive |-> FALSE,
          login |-> <<>>, isVod |-> TRUE, vodID |-> r.target]

\* `j?.data?.streamPlaybackAccessToken || j?.data?.streamAccessToken`
LiveTok(j) ==
    IF j.data = Nothing THEN Nothing
    ELSE IF j.data.streamPlaybackAccessToken # Nothing
    THEN j.data.streamPlaybackAccessToken
    ELSE j.data.streamAccessToken

\* `j?.data?.videoPlaybackAccessToken`
VodTok(j) ==
    IF j.data = Nothing THEN Nothing ELSE j.data.videoPlaybackAccessToken

\* Variant: the pair of a signing response is kept, and a later signing call
\* is answered from the pair kept.
PlaybackToken_Cached(tok) ==
    LET kept == {q \in Procs :
                    /\ upstream[q] # Nothing
                    /\ upstream[q].from = "gql"
                    /\ Ok(upstream[q].response)
                    /\ pc[q] = "done"
                    /\ resp[q].status = 200}
    IN  IF tok = Nothing \/ Falsy(tok.signature) \/ Falsy(tok.value)
        THEN Nothing
        ELSE IF kept # {}
        THEN LET q == CHOOSE q \in kept : TRUE
                 j == upstream[q].response.json
                 t == IF req[q].step = "live" THEN LiveTok(j) ELSE VodTok(j)
             IN  [sig |-> t.signature, token |-> t.value]
        ELSE [sig |-> tok.signature, token |-> tok.value]

\* Variant: only the signature is required.
PlaybackToken_SignatureOnly(tok) ==
    IF tok = Nothing \/ Falsy(tok.signature)
    THEN Nothing
    ELSE [sig |-> tok.signature, token |-> tok.value]

\* `if (!tok?.signature || !tok?.value) return null;` and the pair returned.
PlaybackToken(tok) ==
    IF tok = Nothing \/ Falsy(tok.signature) \/ Falsy(tok.value)
    THEN Nothing
    ELSE [sig |-> tok.signature, token |-> tok.value]

\* `Math.floor(Math.random() * 1e7)` with Math.random() = k / RandomSteps.
RandomP(k) == (k * RANDOM_SCALE) \div RandomSteps

RandomDraws == 0 .. (RandomSteps - 1)

\* A URL is the record of its origin, the segments of its path, the manifest
\* file name as written into the path, and its query as serialised by
\* URLSearchParams (values form-encoded).
\* Variant: the signature and the value in each other's parameter.
buildLiveUsherURL_Swapped(channel, sig, token, k) ==
    [origin |-> "https://usher.ttvnw.net",
     path |-> <<"api", "channel", "hls">>,
     file |-> encodeURIComponent(channel) \o <<".m3u8">>,
     query |-> [sig |-> FormEncode(token), token |-> FormEncode(sig),
                player |-> "twitchweb", allow_source |-> "true",
                allow_audio_only |-> "true",
                playlist_include_framerate |-> "true",
                reassignments_supported |-> "true",
                p |-> RandomP(k)]]

buildLiveUsherURL(channel, sig, token, k) ==
    [origin |-> "https://usher.ttvnw.net",
     path |-> <<"api", "channel", "hls">>,
     file |-> encodeURIComponent(channel) \o <<".m3u8">>,
     query |-> [sig |-> FormEncode(sig), token |-> FormEncode(token),
                player |-> "twitchweb", allow_source |-> "true",
                allow_audio_only |-> "true",
                playlist_include_framerate |-> "true",
                reassignments_supported |-> "true",
                p |-> RandomP(k)]]

buildVODUsherURL(vodId, sig, token, k) ==
    [origin |-> "https://usher.ttvnw.net",
     path |-> <<"vod">>,
     file |-> vodId \o <<".m3u8">>,
     query |-> [sig |-> FormEncode(sig), token |-> FormEncode(token),
                player |-> "twitchweb", allow_source |-> "true",
                allow_audio_only |-> "true",
                p |-> RandomP(k)]]

(***************************************************************************)
(* GET /hls                                                                *)
(***************************************************************************)
ChannelQueries == {Undefined, <<" ">>, <<"a">>, <<" ", "A", " ", "b", " ">>}
VodQueries == {Undefined, <<>>, <<" ", "V", "9">>}

HandleHlsWith(p, channelQuery, vodQuery) ==
    /\ pc[p] = "idle"
    /\ UNCHANGED <<helixAppToken, clock, env, upstream>>
    /\ LET channel == OptTrimLower(channelQuery)
           vodId == OptTrim(vodQuery)
           q == [channel |-> channelQuery, vod |-> vodQuery]
       IN  IF Falsy(channel) /\ Falsy(vodId)
           THEN /\ Respond(p, 400, [error |-> "channel or vod required"])
                /\ req' = [req EXCEPT ![p] = [NoReq EXCEPT !.route = "hls",
                                                           !.query = q]]
                /\ calls' = calls
           ELSE LET r == IF ~Falsy(vodId)
                         THEN [NoReq EXCEPT !.route = "hls", !.query = q,
                                            !.step = "vod", !.target = vodId]
                         ELSE [NoReq EXCEPT !.route = "hls", !.query = q,
                                            !.step = "live", !.target = channel]
                IN  /\ req' = [req EXCEPT ![p] = r]
                    /\ calls' = [calls EXCEPT ![p] = Append(@, GqlCall(r))]
                    /\ pc' = [pc EXCEPT ![p] = "gqlWait"]
                    /\ resp' = resp

HandleHls(p) ==
    \E c \in ChannelQueries, v \in VodQueries : HandleHlsWith(p, c, v)

\* getLivePlaybackToken or getVODPlaybackToken resumed with the signing
\* endpoint's response r, then the handler to its response; k is the draw of
\* Math.random().
GqlResponseWith(p, r, k) ==
    /\ pc[p] = "gqlWait"
    /\ upstream' = [upstream EXCEPT ![p] = Received("gql", r)]
    /\ UNCHANGED <<helixAppToken, clock, env, req, calls>>
    /\ IF ~Ok(r)
       THEN HlsServerError(p, GqlErrorMessage(r))
       ELSE LET live == req[p].step = "live"
                pt == PlaybackToken(IF live THEN LiveTok(r.json) ELSE VodTok(r.json))
            IN  IF pt = Nothing
                THEN Respond(p, 404,
                             [error |-> IF live THEN "offline or no token"
                                        ELSE "vod not found or unavailable"])
                ELSE Respond(p, 200,
                             [url |-> IF live
                                      THEN buildLiveUsherURL(req[p].target,
                                                             pt.sig, pt.token, k)
                                      ELSE buildVODUsherURL(req[p].target,
                                                            pt.sig, pt.token, k)])

GqlResponse(p) ==
    /\ pc[p] = "gqlWait"
    /\ \E r \in GqlResponses(req[p]), k \in RandomDraws : GqlResponseWith(p, r, k)

(***************************************************************************)
(* Startup: the end of the module (lines 360-377), evaluated once the      *)
(* routes are registered.  The banner is a template literal that reads the *)
(* identifiers PORT and TWITCH_CLIENT_ID; reading an identifier that has   *)
(* no binding throws a ReferenceError, which ends the evaluation of the    *)
(* module, and with it the process, before serve() is called.              *)
(***************************************************************************)
\* The bindings of the module (imports, constants, functions) and the
\* globals of the runtime it uses.
ModuleBindings ==
    {"Hono", "serve", "cors", "PORT", "GQL_CLIENT_ID", "HELIX_CLIENT_ID",
     "HELIX_CLIENT_SECRET", "app", "helixAppToken", "getHelixAppToken",
     "callHelix", "getLivePlaybackToken", "getVODPlaybackToken",
     "buildLiveUsherURL", "buildVODUsherURL"}

GlobalBindings ==
    {"process", "console", "fetch", "URL", "URLSearchParams", "Date", "Math",
     "JSON", "Map", "Object", "Array", "Error", "encodeURIComponent"}

Resolves(name) == name \in ModuleBindings \cup GlobalBindings

\* The identifiers the banner interpolates (lines 364 and 365).
BannerIdentifiers == {"PORT", "TWITCH_CLIENT_ID"}

ReferenceErrorMessage(name) == [text |-> "is not defined", name |-> name]

DefaultPort == 3000
PortValues == {Undefined, <<>>, <<"8", "0", "8", "0">>}

\* `process.env.PORT || 3000`
PortOf(v) == IF Falsy(v) THEN DefaultPort ELSE v

Startup ==
    /\ startup.phase = "registered"
    /\ \E v \in PortValues :
          LET unbound == {n \in BannerIdentifiers : ~Resolves(n)} IN
          startup' = IF unbound # {}
                     THEN [phase |-> "crashed",
                           error |-> ReferenceErrorMessage(CHOOSE n \in unbound : TRUE)]
                     ELSE [phase |-> "listening", port |-> PortOf(v)]
    /\ UNCHANGED <<config, helixAppToken, clock, pc, req, calls, resp, upstream>>

\* A client's GET /: the health handler (lines 345-358) answers when the
\* server listens; otherwise nothing accepts the connection and the client
\* gets no HTTP response (status 0).
GetRoot(p) ==
    /\ pc[p] = "idle"
    /\ IF startup.phase = "listening"
       THEN Respond(p, 200, [status |-> "ok",
                             helix_configured |-> ~CredentialsMissing,
                             gql_enabled |-> TRUE])
       ELSE Respond(p, 0, [error |-> "ECONNREFUSED"])
    /\ req' = [req EXCEPT ![p] = [NoReq EXCEPT !.route = "root"]]
    /\ UNCHANGED <<helixAppToken, clock, env, calls, upstream>>

(***************************************************************************)
(* Specifications.                                                         *)
(*                                                                         *)
(* Spec: every route, with every input above, one request after another.   *)
(* SpecRace: /api/channels requests of two clients interleaved at their    *)
(* suspension points, with the credentials configured.                     *)
(***************************************************************************)
Next ==
    \/ HandleChannels(1)
    \/ HandleVideos(1)
    \/ HandleHls(1)
    \/ OauthResponse(1)
    \/ HelixResponse(1)
    \/ GqlResponse(1)
    \/ Finish(1)
    \/ Tick

Spec == Init /\ [][Next]_vars

\* In SpecRace the Helix API answers an error or an empty list.
RaceHelixResponses == ErrorResponses \cup {[status |-> 200, data |-> <<>>]}

InitRace ==
    /\ Init
    /\ ~CredentialsMissing
    /\ NODE_ENV = <<"production">>

NextRace ==
    \/ \E p \in Procs : HandleChannelsWith(p, <<"a">>)
    \/ \E p \in Procs : OauthResponse(p)
    \/ \E p \in Procs : \E r \in RaceHelixResponses : HelixResponseWith(p, r)
    \/ \E p \in Procs : Finish(p)
    \/ Tick

SpecRace == InitRace /\ [][NextRace]_vars

\* SpecHls: /hls requests of two clients interleaved at their suspension
\* points, for two live channels and a VOD, the signing endpoint answering an
\* error, no token object, or one of two pairs.
HlsRaceQueries ==
    {[channel |-> <<"a">>, vod |-> Undefined],
     [channel |-> <<" ", "A", " ", "b", " ">>, vod |-> Undefined],
     [channel |-> Undefined, vod |-> <<" ", "V", "9">>]}

HlsRaceToks ==
    {Nothing,
     [signature |-> <<"S">>, value |-> <<"v", " ", "+">>],
     [signature |-> <<"T">>, value |-> <<"w">>]}

HlsRaceResponses(r) ==
    ErrorResponses \cup
    [status : {200},
     json : IF r.step = "live"
            THEN [data : [streamPlaybackAccessToken : HlsRaceToks,
                          streamAccessToken : {Nothing}]]
            ELSE [data : [videoPlaybackAccessToken : HlsRaceToks]]]

NextHls ==
    \/ \E p \in Procs : \E q \in HlsRaceQueries :
          HandleHlsWith(p, q.channel, q.vod)
    \/ \E p \in Procs :
          /\ pc[p] = "gqlWait"
          /\ \E r \in HlsRaceResponses(req[p]), k \in RandomDraws :
                GqlResponseWith(p, r, k)
    \/ \E p \in Procs : Finish(p)

SpecHls == Init /\ [][NextHls]_vars

\* SpecStartup: the module finishes its evaluation while clients ask for the
\* status route.
NextStartup ==
    \/ Startup
    \/ \E p \in Procs : GetRoot(p)
    \/ \E p \in Procs : Finish(p)
    \/ Tick

SpecStartup == Init /\ [][NextStartup]_vars

(***************************************************************************)
(* Vocabulary of the properties.  These definitions read the state the     *)
(* handlers leave behind; none of them uses the operators of the handlers. *)
(***************************************************************************)
BothCredentials == HELIX_CLIENT_ID # <<>> /\ HELIX_CLIENT_SECRET # <<>>

Is2xx(r) == r.status \in 200..299

IdentityFetches(log) == Cardinality({i \in DOMAIN log : log[i].to = "identity"})

\* Request p calls getHelixAppToken in this step.
EntersGetToken(p) == req'[p].tokenCalls = req[p].tokenCalls + 1

\* The getHelixAppToken call of request p ends in this step.
LeavesGetToken(p) ==
    \/ EntersGetToken(p) /\ pc'[p] # "oauthWait"
    \/ pc[p] = "oauthWait" /\ pc'[p] # "oauthWait"

\* getHelixAppToken hands a token to callHelix in this step: callHelix sends
\* it as the bearer of the fetch it issues next.
HandsToken(p) ==
    /\ Len(calls'[p]) = Len(calls[p]) + 1
    /\ calls'[p][Len(calls'[p])].to = "helix"

HandedToken(p) == calls'[p][Len(calls'[p])].bearer

LastCall(p) == calls[p][Len(calls[p])]

FreshSlot(j, t) ==
    [token |-> j.access_token, expiresAt |-> t + (j.expires_in * 1000)]

(***************************************************************************)
(* C1.  Cache hit: a getHelixAppToken call made with both credentials      *)
(* configured and a cached token with now < expiresAt - 60 s returns the   *)
(* cached token, issues no call to the identity endpoint and leaves the    *)
(* slot unchanged.                                                         *)
(***************************************************************************)
C1_CacheHit ==
    [][\A p \in Procs :
        (/\ EntersGetToken(p)
         /\ BothCredentials
         /\ helixAppToken # Nothing
         /\ clock < helixAppToken.expiresAt - 60000)
        => (/\ HandsToken(p)
            /\ HandedToken(p) = helixAppToken.token
            /\ IdentityFetches(calls'[p]) = IdentityFetches(calls[p])
            /\ helixAppToken' = helixAppToken)]_vars

\* A request whose first token call was served from the cache.
C1_Witness ==
    \E p \in Procs :
        /\ pc[p] = "helixWait"
        /\ req[p].tokenCalls = 1
        /\ calls[p] # <<>>
        /\ IdentityFetches(calls[p]) = 0
        /\ helixAppToken # Nothing
        /\ LastCall(p).bearer = helixAppToken.token
        /\ clock < helixAppToken.expiresAt - 60000

(***************************************************************************)
(* C2.  As claimed: a getHelixAppToken call made inside the 60-second      *)
(* window that ends at expiresAt issues no fetch to the identity endpoint. *)
(***************************************************************************)
C2_NoFetchInsideMargin ==
    [][\A p \in Procs :
        (/\ EntersGetToken(p)
         /\ BothCredentials
         /\ helixAppToken # Nothing
         /\ helixAppToken.expiresAt - 60000 <= clock
         /\ clock < helixAppToken.expiresAt)
        => IdentityFetches(calls'[p]) = IdentityFetches(calls[p])]_vars

\* C2 as amended: with a token cached, a call issues no fetch exactly when it
\* is made before the window (now < expiresAt - 60 s); a call made inside the
\* window issues one fetch to the identity endpoint.
C2_FetchUnlessBeforeMargin ==
    [][\A p \in Procs :
        (/\ EntersGetToken(p)
         /\ BothCredentials
         /\ helixAppToken # Nothing)
        => /\ (clock < helixAppToken.expiresAt - 60000)
                => IdentityFetches(calls'[p]) = IdentityFetches(calls[p])
           /\ (helixAppToken.expiresAt - 60000 <= clock)
                => IdentityFetches(calls'[p]) = IdentityFetches(calls[p]) + 1]_vars

\* A call made inside the window is waiting for the identity endpoint.
C2_Witness ==
    \E p \in Procs :
        /\ pc[p] = "oauthWait"
        /\ helixAppToken # Nothing
        /\ clock = req[p].now
        /\ helixAppToken.expiresAt - 60000 <= clock
        /\ clock < helixAppToken.expiresAt
        /\ LastCall(p).to = "identity"

(***************************************************************************)
(* C3.  Cache miss: a getHelixAppToken call that passes the credential     *)
(* check when no token is cached, or at or after the cached token's        *)
(* expiry, issues exactly one fetch to the identity endpoint: one when it  *)
(* is made and none when it is resumed.  On a 2xx response the token it    *)
(* returns is the access_token of that response, and the slot becomes      *)
(* {token: access_token, expiresAt: time of the response +                 *)
(* expires_in * 1000}.                                                     *)
(***************************************************************************)
C3_CacheMiss ==
    [][\A p \in Procs :
        /\ (/\ EntersGetToken(p)
            /\ BothCredentials
            /\ (helixAppToken = Nothing \/ clock >= helixAppToken.expiresAt))
           => (/\ pc'[p] = "oauthWait"
               /\ IdentityFetches(calls'[p]) = IdentityFetches(calls[p]) + 1
               /\ Len(calls'[p]) = Len(calls[p]) + 1)
        /\ (pc[p] = "oauthWait" /\ pc'[p] # "oauthWait")
           => (/\ IdentityFetches(calls'[p]) = IdentityFetches(calls[p])
               /\ upstream'[p].from = "identity"
               /\ Is2xx(upstream'[p].response)
                    => (/\ HandsToken(p)
                        /\ HandedToken(p) = upstream'[p].response.access_token
                        /\ helixAppToken' = FreshSlot(upstream'[p].response, clock)))]_vars

\* The second token call of a request missed at the very instant the first
\* one stored a token (expires_in = 0: the token is expired at once), and
\* was answered.
C3_Witness ==
    \E p \in Procs :
        /\ pc[p] = "helixWait"
        /\ req[p].tokenCalls = 2
        /\ IdentityFetches(calls[p]) = 2
        /\ clock = 0
        /\ upstream[p] # Nothing
        /\ upstream[p].from = "identity"
        /\ LastCall(p).bearer = upstream[p].response.access_token
        /\ helixAppToken = FreshSlot(upstream[p].response, clock)

(***************************************************************************)
(* C4.  As claimed: whenever getHelixAppToken hands a token to its caller, *)
(* on a hit or on a fresh fetch, for any expires_in, the expiresAt of the  *)
(* slot is strictly later than the current time.                           *)
(***************************************************************************)
C4_HandedTokenNotExpired ==
    [][\A p \in Procs :
        HandsToken(p) => helixAppToken'.expiresAt > clock']_vars

\* C4 as amended: it holds on every cache hit, and on every fresh fetch whose
\* response carries a positive expires_in.
C4_HandedTokenNotExpiredIfPositive ==
    [][\A p \in Procs :
        (/\ HandsToken(p)
         /\ ~(pc[p] = "oauthWait" /\ upstream'[p].response.expires_in <= 0))
        => helixAppToken'.expiresAt > clock']_vars

\* A freshly fetched token with a positive expires_in has been handed out.
C4_Witness ==
    \E p \in Procs :
        /\ pc[p] = "helixWait"
        /\ upstream[p] # Nothing
        /\ upstream[p].from = "identity"
        /\ upstream[p].response.expires_in > 0
        /\ LastCall(p).bearer = helixAppToken.token
        /\ helixAppToken.expiresAt > clock

(***************************************************************************)
(* C5.  As claimed: with the client id or the client secret absent, every  *)
(* getHelixAppToken call fails with the configuration error before any     *)
(* outbound call and leaves the slot unchanged; otherwise every call       *)
(* returns a token.                                                        *)
(***************************************************************************)
ConfigurationFailure(p) ==
    /\ pc'[p] = "done"
    /\ resp'[p].status = 500
    /\ resp'[p].body.details =
         [text |-> "TWITCH_CLIENT_ID and TWITCH_CLIENT_SECRET required for Helix API"]
    /\ calls'[p] = calls[p]
    /\ \A i \in DOMAIN calls'[p] : calls'[p][i].to \notin {"identity", "helix"}
    /\ helixAppToken' = helixAppToken

UpstreamFailure(p) ==
    /\ pc[p] = "oauthWait"
    /\ upstream'[p].from = "identity"
    /\ ~Is2xx(upstream'[p].response)
    /\ pc'[p] = "done"
    /\ resp'[p].status = 500
    /\ resp'[p].body.details.text = "oauth token"

C5_ConfigErrorElseToken ==
    [][\A p \in Procs :
        /\ (EntersGetToken(p) /\ ~BothCredentials) => ConfigurationFailure(p)
        /\ (LeavesGetToken(p) /\ BothCredentials) => HandsToken(p)]_vars

\* C5 as amended: otherwise the call returns a token, unless the identity
\* endpoint answers non-2xx, in which case it fails with an upstream error.
C5_ConfigErrorElseTokenOrUpstreamError ==
    [][\A p \in Procs :
        /\ (EntersGetToken(p) /\ ~BothCredentials) => ConfigurationFailure(p)
        /\ (LeavesGetToken(p) /\ BothCredentials)
             => (HandsToken(p) \/ UpstreamFailure(p))]_vars

\* A request failed on the credential check with only the secret absent.
C5_Witness ==
    \E p \in Procs :
        /\ HELIX_CLIENT_ID # <<>>
        /\ HELIX_CLIENT_SECRET = <<>>
        /\ pc[p] = "done"
        /\ req[p].tokenCalls = 1
        /\ resp[p].status = 500
        /\ calls[p] = <<>>

(***************************************************************************)
(* C6.  As claimed: for each of the three upstreams, a request that        *)
(* received a non-2xx response ends with a 500 whose details carry both    *)
(* the status and the body of that response.                               *)
(***************************************************************************)
C6_UpstreamErrorCarriesStatusAndBody ==
    \A p \in Procs :
        (/\ pc[p] = "done"
         /\ upstream[p] # Nothing
         /\ ~Is2xx(upstream[p].response))
        => (/\ resp[p].status = 500
            /\ "status" \in DOMAIN resp[p].body.details
            /\ resp[p].body.details.status = upstream[p].response.status
            /\ "body" \in DOMAIN resp[p].body.details
            /\ resp[p].body.details.body = upstream[p].response.text)

(***************************************************************************)
(* C7.  Under every interleaving of getHelixAppToken calls: a call that    *)
(* finds the token absent or expired issues its own fetch, whatever other  *)
(* fetches are in flight; a call resumed with a 2xx response writes the    *)
(* slot from its own response and returns the token of its own response;   *)
(* the slot changes in no other step, so it always holds the one complete  *)
(* pair of the response processed last.                                    *)
(***************************************************************************)
ResumedWithToken(p) ==
    /\ pc[p] = "oauthWait"
    /\ pc'[p] # "oauthWait"
    /\ upstream'[p].from = "identity"
    /\ Is2xx(upstream'[p].response)

C7_LastWriterWins ==
    [][/\ \A p \in Procs :
            /\ (/\ EntersGetToken(p)
                /\ (helixAppToken = Nothing \/ clock >= helixAppToken.expiresAt))
               => (/\ pc'[p] = "oauthWait"
                   /\ IdentityFetches(calls'[p]) = IdentityFetches(calls[p]) + 1)
            /\ ResumedWithToken(p)
               => (/\ helixAppToken' = FreshSlot(upstream'[p].response, clock)
                   /\ HandsToken(p)
                   /\ HandedToken(p) = upstream'[p].response.access_token)
       /\ helixAppToken' # helixAppToken
            => \E p \in Procs : ResumedWithToken(p)
       /\ helixAppToken' # Nothing
            => (/\ DOMAIN helixAppToken' = {"token", "expiresAt"}
                /\ helixAppToken'.token \in {"t1", "t2"}
                /\ helixAppToken'.expiresAt \in Nat)]_vars

\* Two calls raced: no time has passed, both fetched a token good for 120 s
\* (so the later call was made before the earlier response was stored), each
\* was handed its own token, and the slot holds the pair of one of them.
C7_Witness ==
    /\ clock = 0
    /\ \A p \in Procs :
        /\ pc[p] = "helixWait"
        /\ req[p].tokenCalls = 1
        /\ upstream[p] # Nothing
        /\ upstream[p].from = "identity"
        /\ upstream[p].response.expires_in = 120
        /\ LastCall(p).bearer = upstream[p].response.access_token
    /\ upstream[1].response.access_token # upstream[2].response.access_token
    /\ helixAppToken = FreshSlot(upstream[2].response, 0)

(***************************************************************************)
(* C8.  A 2xx signing response in which no playback-token object has both  *)
(* a signature and a value makes /hls answer 404 (the signer returned      *)
(* null), for a live channel and for a VOD; /hls answers 500 only after a  *)
(* non-2xx signing response.                                               *)
(***************************************************************************)
LacksPair(t) ==
    \/ t = Nothing
    \/ t.signature \in {Undefined, <<>>}
    \/ t.value \in {Undefined, <<>>}

ResponseLacksPair(step, r) ==
    \/ r.json.data = Nothing
    \/ /\ step = "live"
       /\ LacksPair(r.json.data.streamPlaybackAccessToken)
       /\ LacksPair(r.json.data.streamAccessToken)
    \/ /\ step = "vod"
       /\ LacksPair(r.json.data.videoPlaybackAccessToken)

C8_NoPairIsNotFound ==
    \A p \in Procs :
        (pc[p] = "done" /\ req[p].route = "hls")
        => /\ resp[p].status = 500
                => (upstream[p] # Nothing /\ ~Is2xx(upstream[p].response))
           /\ (/\ upstream[p] # Nothing
               /\ Is2xx(upstream[p].response)
               /\ ResponseLacksPair(req[p].step, upstream[p].response))
                => resp[p].status = 404

\* A VOD request was answered 404 after a 2xx response whose token object
\* has a signature and no value.
C8_Witness ==
    \E p \in Procs :
        /\ pc[p] = "done"
        /\ req[p].route = "hls"
        /\ req[p].step = "vod"
        /\ upstream[p] # Nothing
        /\ Is2xx(upstream[p].response)
        /\ upstream[p].response.json.data # Nothing
        /\ upstream[p].response.json.data.videoPlaybackAccessToken =
             [signature |-> <<"S">>, value |-> Undefined]
        /\ resp[p].status = 404

(***************************************************************************)
(* C9.  A GET /hls request whose channel and vod parameters are both       *)
(* absent, empty or blank is answered 400 and issues no outbound call.     *)
(***************************************************************************)
Blank(x) == x = Undefined \/ \A i \in DOMAIN x : x[i] = " "

C9_NeitherParameter ==
    \A p \in Procs :
        (/\ req[p].route = "hls"
         /\ Blank(req[p].query.channel)
         /\ Blank(req[p].query.vod))
        => (/\ pc[p] = "done"
            /\ resp[p].status = 400
            /\ calls[p] = <<>>)

\* A request with a blank channel and an empty vod was answered.
C9_Witness ==
    \E p \in Procs :
        /\ req[p].route = "hls"
        /\ req[p].query.channel = <<" ">>
        /\ req[p].query.vod = <<>>
        /\ resp[p].status = 400
        /\ calls[p] = <<>>

(***************************************************************************)
(* C10.  GET /hls?channel=X with a non-blank X and no vod parameter, whose *)
(* 2xx signing response carries a signature S and a value V in its token   *)
(* object (data.streamPlaybackAccessToken, or data.streamAccessToken when  *)
(* the former is absent), is answered 200 with a url whose path is the     *)
(* live manifest of the trimmed, lower-cased X, whose query decodes to     *)
(* sig = S and token = V and has the fixed live parameters, and whose p is *)
(* an integer with 0 <= p < 10,000,000.                                    *)
(***************************************************************************)
\* What a URL parser reads back from an escaped path segment or query value.
HexChar(a, b) ==
    CASE a = "2" /\ b = "0" -> " "
      [] a = "2" /\ b = "B" -> "+"
      [] a = "2" /\ b = "6" -> "&"
      [] a = "3" /\ b = "D" -> "="
      [] a = "2" /\ b = "5" -> "%"

RECURSIVE PercentDecode(_)
PercentDecode(s) ==
    IF s = <<>> THEN <<>>
    ELSE IF Head(s) = "%" /\ Len(s) >= 3
    THEN <<HexChar(s[2], s[3])>> \o PercentDecode(SubSeq(s, 4, Len(s)))
    ELSE <<Head(s)>> \o PercentDecode(Tail(s))

RECURSIVE FormDecode(_)
FormDecode(s) ==
    IF s = <<>> THEN <<>>
    ELSE IF Head(s) = "+" THEN <<" ">> \o FormDecode(Tail(s))
    ELSE IF Head(s) = "%" /\ Len(s) >= 3
    THEN <<HexChar(s[2], s[3])>> \o FormDecode(SubSeq(s, 4, Len(s)))
    ELSE <<Head(s)>> \o FormDecode(Tail(s))

\* y is x without its leading and trailing blanks, in lower case.
TrimmedLowerOf(y, x) ==
    \E i \in 1..(Len(x) + 1) :
        /\ i + Len(y) - 1 <= Len(x)
        /\ \A k \in 1..Len(y) :
              y[k] = (CASE x[i + k - 1] = "A" -> "a"
                        [] x[i + k - 1] = "B" -> "b"
                        [] x[i + k - 1] = "V" -> "v"
                        [] OTHER -> x[i + k - 1])
        /\ \A k \in 1..(i - 1) : x[k] = " "
        /\ \A k \in (i + Len(y))..Len(x) : x[k] = " "
        /\ y # <<>> => (y[1] # " " /\ y[Len(y)] # " ")

\* The token object of a live signing response.
LiveTokenObject(r) ==
    IF r.json.data = Nothing THEN Nothing
    ELSE IF r.json.data.streamPlaybackAccessToken # Nothing
    THEN r.json.data.streamPlaybackAccessToken
    ELSE r.json.data.streamAccessToken

C10_LiveUrl ==
    \A p \in Procs :
        (/\ pc[p] = "done"
         /\ req[p].route = "hls"
         /\ req[p].query.vod = Undefined
         /\ ~Blank(req[p].query.channel)
         /\ upstream[p] # Nothing
         /\ Is2xx(upstream[p].response)
         /\ ~LacksPair(LiveTokenObject(upstream[p].response)))
        => LET X == req[p].query.channel
               t == LiveTokenObject(upstream[p].response)
               url == resp[p].body.url
           IN  /\ resp[p].status = 200
               /\ url.origin = "https://usher.ttvnw.net"
               /\ url.path = <<"api", "channel", "hls">>
               /\ url.file # <<>>
               /\ url.file[Len(url.file)] = ".m3u8"
               /\ TrimmedLowerOf(
                      PercentDecode(SubSeq(url.file, 1, Len(url.file) - 1)), X)
               /\ FormDecode(url.query.sig) = t.signature
               /\ FormDecode(url.query.token) = t.value
               /\ url.query.player = "twitchweb"
               /\ url.query.allow_source = "true"
               /\ url.query.allow_audio_only = "true"
               /\ url.query.playlist_include_framerate = "true"
               /\ url.query.reassignments_supported = "true"
               /\ url.query.p \in Nat
               /\ url.query.p < 10000000

\* " A b " was asked for and answered with the manifest of "a b", the token
\* taken from data.streamAccessToken and its value escaped in the query.
C10_Witness ==
    \E p \in Procs :
        /\ pc[p] = "done"
        /\ req[p].route = "hls"
        /\ req[p].query = [channel |-> <<" ", "A", " ", "b", " ">>, vod |-> Undefined]
        /\ upstream[p] # Nothing
        /\ Is2xx(upstream[p].response)
        /\ upstream[p].response.json.data # Nothing
        /\ upstream[p].response.json.data.streamPlaybackAccessToken = Nothing
        /\ upstream[p].response.json.data.streamAccessToken =
             [signature |-> <<"S">>, value |-> <<"v", " ", "+">>]
        /\ resp[p].status = 200
        /\ resp[p].body.url.file = <<"a", "%", "2", "0", "b", ".m3u8">>
        /\ resp[p].body.url.query.sig = <<"S">>
        /\ resp[p].body.url.query.token = <<"v", "+", "%", "2", "B">>
        /\ resp[p].body.url.query.p > 0

(***************************************************************************)
(* C11.  As claimed, with the users lookup the claim starts from: an       *)
(* answered GET /api/videos/:channel request, made with both credentials   *)
(* configured and having received no non-2xx response, has issued the      *)
(* users lookup for its channel; when that lookup answered 2xx with zero   *)
(* users, the response is 404 and no videos lookup was issued.             *)
(***************************************************************************)
UsersLookups(log) ==
    {i \in DOMAIN log : log[i].to = "helix" /\ log[i].endpoint = "users"}

VideosLookups(log) ==
    {i \in DOMAIN log : log[i].to = "helix" /\ log[i].endpoint = "videos"}

C11_ZeroUsersIsNotFound ==
    \A p \in Procs :
        (/\ pc[p] = "done"
         /\ req[p].route = "videos"
         /\ ~Blank(req[p].query.channel)
         /\ BothCredentials
         /\ (upstream[p] = Nothing \/ Is2xx(upstream[p].response)))
        => /\ UsersLookups(calls[p]) # {}
           /\ (/\ upstream[p] # Nothing
               /\ upstream[p].from = "helix"
               /\ Len(calls[p]) \in UsersLookups(calls[p])
               /\ upstream[p].response.data = <<>>)
                => (resp[p].status = 404 /\ VideosLookups(calls[p]) = {})

(***************************************************************************)
(* C12.  As claimed: a GET /api/channels request whose logins parameter is *)
(* missing or has an empty value is answered 400 and issues no outbound    *)
(* call.                                                                   *)
(***************************************************************************)
C12_NoLoginsIsBadRequest ==
    \A p \in Procs :
        (/\ req[p].route = "channels"
         /\ req[p].query.logins \in {Undefined, <<>>})
        => (/\ pc[p] = "done"
            /\ resp[p].status = 400
            /\ calls[p] = <<>>)

(***************************************************************************)
(* C13.  As claimed: every identifier carried by an outbound call (each    *)
(* login of a users or streams lookup, the login of a live signing call,   *)
(* the vodID of a VOD signing call) is the trimmed, lower-cased form of    *)
(* the identifier the client supplied: the k-th comma-separated piece of   *)
(* logins, the channel parameter, the vod parameter.                       *)
(***************************************************************************)
CommasBefore(x, i) == Cardinality({k \in 1..(i - 1) : x[k] = ","})

\* The k-th of the comma-separated identifiers of x.
Supplied(x, k) ==
    LET at == {i \in DOMAIN x : x[i] # "," /\ CommasBefore(x, i) = k - 1} IN
    IF at = {} THEN <<>>
    ELSE LET first == CHOOSE i \in at : \A m \in at : i <= m
         IN  [j \in 1..Cardinality(at) |-> x[first + j - 1]]

CarriedLogins(call) ==
    IF "login" \in DOMAIN call.params THEN call.params.login
    ELSE call.params.user_login

C13_IdentifiersNormalised ==
    \A p \in Procs : \A i \in DOMAIN calls[p] :
        LET call == calls[p][i] IN
        /\ (call.to = "helix" /\ req[p].route = "channels")
             => LET x == req[p].query.logins
                    ids == CarriedLogins(call)
                IN  /\ Len(ids) = CommasBefore(x, Len(x) + 1) + 1
                    /\ \A k \in DOMAIN ids : TrimmedLowerOf(ids[k], Supplied(x, k))
        /\ (call.to = "gql" /\ call.isLive)
             => TrimmedLowerOf(call.login, req[p].query.channel)
        /\ (call.to = "gql" /\ call.isVod)
             => TrimmedLowerOf(call.vodID, req[p].query.vod)

(***************************************************************************)
(* C14.  As claimed: a 500 response sent in production mode carries        *)
(* neither details nor a stack, on every endpoint; outside production mode *)
(* the details are included.                                               *)
(***************************************************************************)
Production == NODE_ENV = <<"production">>

\* JSON.stringify leaves out a property whose value is undefined.
HasStack(body) == "stack" \in DOMAIN body /\ body.stack # Undefined

HasDetails(body) == "details" \in DOMAIN body

C14_ProductionHidesDetails ==
    \A p \in Procs :
        (pc[p] = "done" /\ resp[p].status = 500)
        => /\ Production => (~HasDetails(resp[p].body) /\ ~HasStack(resp[p].body))
           /\ ~Production => HasDetails(resp[p].body)

\* C14 as amended: a 500 response always carries details, in production mode
\* too; it carries a stack exactly when it is sent by /hls outside production
\* mode, so never in production mode and never on /api/channels or
\* /api/videos/:channel.
C14_ProductionHidesStack ==
    \A p \in Procs :
        (pc[p] = "done" /\ resp[p].status = 500)
        => /\ HasDetails(resp[p].body)
           /\ HasStack(resp[p].body) <=> (req[p].route = "hls" /\ ~Production)

\* In production mode /hls answered a failed signing call with a 500 that
\* has details and no stack.
C14_Witness ==
    \E p \in Procs :
        /\ Production
        /\ pc[p] = "done"
        /\ req[p].route = "hls"
        /\ upstream[p] # Nothing
        /\ ~Is2xx(upstream[p].response)
        /\ resp[p].status = 500
        /\ HasDetails(resp[p].body)
        /\ ~HasStack(resp[p].body)

(***************************************************************************)
(* C15.  As claimed: with the registered client id or secret absent, every *)
(* request to /api/channels, /api/videos/:channel or /hls?channel=X ends   *)
(* in failure, never in a successful response.                             *)
(***************************************************************************)
ConfigurationErrorText ==
    [text |-> "TWITCH_CLIENT_ID and TWITCH_CLIENT_SECRET required for Helix API"]

LiveSigning(p) == req[p].route = "hls" /\ req[p].step = "live"

C15_AbsentCredentialsFailAll ==
    \A p \in Procs :
        (/\ ~BothCredentials
         /\ pc[p] = "done"
         /\ (req[p].route \in {"channels", "videos"} \/ LiveSigning(p)))
        => ~Is2xx(resp[p])

\* C15 as amended: with the registered client id or secret absent, a request
\* to a metadata endpoint issues no outbound call and is never answered with
\* success, and every /api/channels request that has a logins parameter is
\* answered 500 with the configuration error.  The live-signing endpoint
\* does not use the registered credentials: /hls?channel=X signs with the
\* public client id, never fails with the configuration error, and is
\* answered 200 whenever its signing response carries a pair.
C15_AbsentCredentialsFailMetadata ==
    \A p \in Procs :
        ~BothCredentials =>
        /\ req[p].route \in {"channels", "videos"}
             => (/\ calls[p] = <<>>
                 /\ pc[p] = "done"
                 /\ ~Is2xx(resp[p]))
        /\ (req[p].route = "channels" /\ req[p].query.logins # Undefined)
             => (/\ resp[p].status = 500
                 /\ resp[p].body.details = ConfigurationErrorText)
        /\ LiveSigning(p)
             => (/\ \A i \in DOMAIN calls[p] :
                       /\ calls[p][i].to = "gql"
                       /\ calls[p][i].clientId = "kimne78kx3ncx6brgo4mv6wki5h1ko"
                 /\ (pc[p] = "done" /\ resp[p].status = 500)
                      => resp[p].body.details.text = "gql"
                 /\ (/\ pc[p] = "done"
                     /\ Is2xx(upstream[p].response)
                     /\ ~LacksPair(LiveTokenObject(upstream[p].response)))
                      => resp[p].status = 200)

\* With the secret absent, /hls?channel=a was answered 200 with a url.
C15_Witness ==
    \E p \in Procs :
        /\ HELIX_CLIENT_ID # <<>>
        /\ HELIX_CLIENT_SECRET = <<>>
        /\ pc[p] = "done"
        /\ LiveSigning(p)
        /\ req[p].query.channel = <<"a">>
        /\ resp[p].status = 200
        /\ "url" \in DOMAIN resp[p].body

(***************************************************************************)
(* C16.  Under every interleaving of /hls requests: a request answered 200 *)
(* has issued exactly one signing call, for its own target, and its url is *)
(* the manifest of that target signed with the signature and the value of  *)
(* the response to that call; so when two requests for different targets   *)
(* obtained different pairs, neither url carries the other's pair.         *)
(***************************************************************************)
\* The token object of the signing response request p received.
OwnTokenObject(p) ==
    IF req[p].step = "live" THEN LiveTokenObject(upstream[p].response)
    ELSE upstream[p].response.json.data.videoPlaybackAccessToken

Answered200(p) ==
    pc[p] = "done" /\ req[p].route = "hls" /\ resp[p].status = 200

SignedTarget(call) == IF call.isLive THEN call.login ELSE call.vodID

UrlTarget(url) == PercentDecode(SubSeq(url.file, 1, Len(url.file) - 1))

UrlPair(url) ==
    [signature |-> FormDecode(url.query.sig), value |-> FormDecode(url.query.token)]

C16_OwnPairOnly ==
    /\ \A p \in Procs :
          Answered200(p)
          => /\ Len(calls[p]) = 1
             /\ calls[p][1].to = "gql"
             /\ calls[p][1].isLive = Blank(req[p].query.vod)
             /\ UrlTarget(resp[p].body.url) = SignedTarget(calls[p][1])
             /\ upstream[p].from = "gql"
             /\ UrlPair(resp[p].body.url) = OwnTokenObject(p)
    /\ \A p, q \in Procs :
          (/\ Answered200(p)
           /\ Answered200(q)
           /\ SignedTarget(calls[p][1]) # SignedTarget(calls[q][1])
           /\ OwnTokenObject(p) # OwnTokenObject(q))
          => UrlPair(resp[p].body.url) # OwnTokenObject(q)

\* Two requests, one for the live channel a and one for the VOD V9, are both
\* answered, each with the pair of its own signing response.
C16_Witness ==
    /\ Answered200(1)
    /\ Answered200(2)
    /\ req[1].query.channel = <<"a">>
    /\ req[2].query.vod = <<" ", "V", "9">>
    /\ OwnTokenObject(1) = [signature |-> <<"S">>, value |-> <<"v", " ", "+">>]
    /\ OwnTokenObject(2) = [signature |-> <<"T">>, value |-> <<"w">>]
    /\ resp[1].body.url.query.sig = <<"S">>
    /\ resp[2].body.url.query.sig = <<"T">>
    /\ resp[2].body.url.file = <<"V", "9", ".m3u8">>

(***************************************************************************)
(* C17.  No retry: the step in which a request receives a non-2xx response *)
(* from the identity endpoint, the metadata API or the signing endpoint    *)
(* issues no outbound call and answers the request 500 with the one error  *)
(* object; an answered request issues no call and its response does not    *)
(* change.                                                                 *)
(***************************************************************************)
Waiting(p) == pc[p] \in {"oauthWait", "helixWait", "gqlWait"}

Steps(p) ==
    <<pc[p], req[p], calls[p], resp[p], upstream[p]>>
        # <<pc'[p], req'[p], calls'[p], resp'[p], upstream'[p]>>

ReceivesFailure(p) ==
    /\ Waiting(p)
    /\ Steps(p)
    /\ upstream'[p] # Nothing
    /\ ~Is2xx(upstream'[p].response)

C17_NoRetry ==
    [][\A p \in Procs :
        /\ ReceivesFailure(p)
             => (/\ calls'[p] = calls[p]
                 /\ pc'[p] = "done"
                 /\ resp[p] = Nothing
                 /\ resp'[p].status = 500
                 /\ resp'[p].body.error = "server error"
                 /\ DOMAIN resp'[p].body \subseteq {"error", "details", "stack"})
        /\ (pc[p] = "done" /\ pc'[p] = "done")
             => (calls'[p] = calls[p] /\ resp'[p] = resp[p])
        /\ (pc[p] = "done" /\ pc'[p] # "done")
             => (pc'[p] = "idle" /\ calls'[p] = <<>>)]_vars

\* The users lookup of a request failed after its token was fetched: the
\* request is answered 500 and its log ends with that one users lookup.
C17_Witness ==
    \E p \in Procs :
        /\ pc[p] = "done"
        /\ req[p].route = "channels"
        /\ upstream[p] # Nothing
        /\ upstream[p].from = "helix"
        /\ ~Is2xx(upstream[p].response)
        /\ resp[p].status = 500
        /\ Len(calls[p]) = 2
        /\ calls[p][1].to = "identity"
        /\ calls[p][2].to = "helix"
        /\ calls[p][2].endpoint = "users"

(***************************************************************************)
(* C18.  As claimed: after a 2xx live signing response the signer returns  *)
(* a pair (the request is answered 200 with a signed url) if and only if   *)
(* data.streamPlaybackAccessToken or data.streamAccessToken carries both a *)
(* signature and a value, and the pair is that of such a field, also when  *)
(* the other field is present and incomplete; otherwise it returns null    *)
(* (the request is answered 404).                                          *)
(***************************************************************************)
CompleteFields(r) ==
    IF r.json.data = Nothing THEN {}
    ELSE {t \in {r.json.data.streamPlaybackAccessToken,
                 r.json.data.streamAccessToken} : ~LacksPair(t)}

C18_EitherFieldAccepted ==
    \A p \in Procs :
        (/\ pc[p] = "done"
         /\ LiveSigning(p)
         /\ upstream[p] # Nothing
         /\ Is2xx(upstream[p].response))
        => /\ resp[p].status \in {200, 404}
           /\ resp[p].status = 200 <=> CompleteFields(upstream[p].response) # {}
           /\ resp[p].status = 200
                => UrlPair(resp[p].body.url) \in CompleteFields(upstream[p].response)

(***************************************************************************)
(* C19.  A getHelixAppToken call resumed with a non-2xx response of the    *)
(* identity endpoint leaves the slot exactly as it was; the slot changes   *)
(* only when a call is resumed with a 2xx response; and every call made    *)
(* with both credentials decides on the slot as it then is: a hit returns  *)
(* the cached token, a miss issues a new fetch to the identity endpoint.   *)
(***************************************************************************)
FetchFails(p) ==
    /\ pc[p] = "oauthWait"
    /\ Steps(p)
    /\ ~Is2xx(upstream'[p].response)

SlotServes == helixAppToken # Nothing /\ clock < helixAppToken.expiresAt - 60000

C19_FailedFetchKeepsSlot ==
    [][/\ \A p \in Procs :
            /\ FetchFails(p) => helixAppToken' = helixAppToken
            /\ (EntersGetToken(p) /\ BothCredentials)
                 => IF SlotServes
                    THEN /\ HandsToken(p)
                         /\ HandedToken(p) = helixAppToken.token
                    ELSE /\ pc'[p] = "oauthWait"
                         /\ calls'[p] = Append(calls[p], calls'[p][Len(calls'[p])])
                         /\ calls'[p][Len(calls'[p])].to = "identity"
       /\ helixAppToken' # helixAppToken
            => \E p \in Procs : ResumedWithToken(p)]_vars

\* A token was cached, came within the margin of its expiry, and the fetch
\* that was to replace it failed: the request is answered 500 and the slot
\* still holds the old token.
C19_Witness ==
    \E p \in Procs :
        /\ pc[p] = "done"
        /\ upstream[p] # Nothing
        /\ upstream[p].from = "identity"
        /\ ~Is2xx(upstream[p].response)
        /\ resp[p].status = 500
        /\ helixAppToken # Nothing
        /\ helixAppToken.expiresAt > 0
        /\ clock >= helixAppToken.expiresAt - 60000

(***************************************************************************)
(* C20.  As claimed: for every configuration of the environment, startup   *)
(* runs through the banner and starts the server: the evaluation of the    *)
(* module never ends in an error, and a GET / made once it has ended is    *)
(* answered 200 with the status payload.                                   *)
(***************************************************************************)
C20_StartupReachesListening ==
    /\ startup.phase \in {"registered", "listening"}
    /\ \A p \in Procs :
          (/\ pc[p] = "done"
           /\ req[p].route = "root"
           /\ startup.phase # "registered")
          => (resp[p].status = 200 /\ resp[p].body.status = "ok")

====
